---- MODULE Spec2Model ----
\* Model of ouch's command dispatcher `run` (src/commands/mod.rs): the main
\* thread walking one subcommand, the logging consumer spawned on the rayon
\* pool, the shutdown barrier (Mutex<bool> + Condvar) and the decompression
\* items dispatched through par_iter().try_for_each.
EXTENDS Integers, Sequences, FiniteSets, TLC

\* ---------------------------------------------------------------- bounds
MaxFiles == 2
MaxCompressFiles == 11
MaxMsgs == 2
MaxThreads == 3

\* Values of --level tried: -MaxLevel..MaxLevel and the ends of i16.
MaxLevel == 6

\* ------------------------------------------------------- program constants
BUFFER_SIZE == 10
FAST_LEVEL == 1
I16_MAX == 32767
I16_MIN == -32768

Names == {"a", "b"}
OutputPath == "a"
FormatFlags == {"bad", "tar"}
DecompressFormatFlags == {"bad", "gz"}
FileChains == {<<>>, <<"Gzip">>, <<"Tar">>}
OutputChains == {<<>>, <<"Gzip">>, <<"Tar">>, <<"Gzip", "Tar">>, <<"Zip", "Gzip">>}

VARIABLES
    args,            \* CliArgs and the environment (never changes)
    mainPc,          \* position of the main thread inside run
    result,          \* what run returned: NotYet, Ok(why) or Err(why, who)
    idx,             \* loop index of the for loops of run
    formats,         \* the local `formats` vector
    output_paths,    \* the local `output_paths` vector
    dirCreated,      \* create_dir_if_non_existent has created the directory
    item,            \* per input: state of its decompress_file / list call
    full,            \* try_for_each has recorded a failure
    fs0,             \* OutputPath held a file when run started (never changes)
    fs,              \* file system: path -> content
    level,           \* the local `level` handed to compress_files
    compress_result, \* "none" | "OkTrue" | "OkFalse" | "Err"
    cleanup,         \* "none" | "removed" | "failed" (remove_file_or_dir)
    fatal,           \* the FATAL ERROR text was written to stderr
    chan,            \* messages in flight on the mpsc channel
    nsent,           \* number of messages sent so far
    buffer,          \* the consumer's `buffer`
    out,             \* what the consumer has printed, as tokens
    consPc,          \* position of the consumer closure
    flushed,         \* the bool inside the Mutex
    mutex            \* holder of the Mutex: "free" | "main" | "cons"

vars == <<args, fs0, level, mainPc, result, idx, formats, output_paths, dirCreated, item,
          full, fs, compress_result, cleanup, fatal, chan, nsent, buffer, out,
          consPc, flushed, mutex>>

chanVars == <<chan, nsent>>
consVars == <<buffer, out, consPc>>
syncVars == <<flushed, mutex>>
loopVars == <<idx, formats, output_paths>>
poolVars == <<item, full>>
compVars == <<compress_result, cleanup, fatal>>

\* ------------------------------------------------------------ file contents
\* Absent: no such path; Blank: created and empty; Old: there before the
\* run; Whole(i): the output written by operation i.
Absent == <<"absent", 0>>
Blank == <<"blank", 0>>
Old == <<"old", 0>>
Whole(i) == <<"whole", i>>

\* ------------------------------------------------------------------ formats
is_archive(f) == f \in {"Tar", "Zip", "SevenZip"}

Failed == <<"Failed">>

parse_format(flag) ==
    IF flag = "tar" THEN <<"Tar">>
    ELSE IF flag = "gz" THEN <<"Gzip">>
    ELSE Failed

extensions_from_path(path) == path.formats

separate_known_extensions_from_name(path) == <<path.name, path.formats>>

file_name(path) == path.name

check_invalid_compression_with_non_archive_format(fmts, files) ==
    /\ fmts # <<>>
    /\ ~(~is_archive(fmts[1]) /\ Len(files) > 1)

check_archive_formats_position(fmts) ==
    \A k \in 2..Len(fmts) : ~is_archive(fmts[k])

check_missing_formats_when_decompressing(fmtss) ==
    \A k \in 1..Len(fmtss) : fmtss[k] # <<>>

check_for_non_archive_formats(fmtss) ==
    \A k \in 1..Len(fmtss) : fmtss[k] # <<>> /\ is_archive(fmtss[k][1])

\* ----------------------------------------------------------------- messages
MainThread == <<"main", 0>>
Worker(i) == <<"item", i>>

\* A rendered line: its tag and text, and (bookkeeping) the message it renders
\* and that message's sender.
Nobody == <<"none", 0>>
Line(tag, text, msg) == [tag |-> tag, text |-> text, of |-> msg.id, by |-> msg.from]
NoLine == [tag |-> "None", text |-> 0, of |-> 0, by |-> Nobody]
NL == [tag |-> "\n", text |-> 0, of |-> 0, by |-> Nobody]

map_message_shows_all(msg) ==
    IF msg.level = "Info"
    THEN IF args.accessible_mode
         THEN Line("Info:", msg.contents, msg)
         ELSE Line("[INFO]", msg.contents, msg)
    ELSE IF args.accessible_mode
         THEN Line("Warning:", 0, msg)
         ELSE Line("[WARNING]", 0, msg)

map_message(msg) ==
    IF msg.level = "Info"
    THEN IF msg.accessible
         THEN IF args.accessible_mode
              THEN Line("Info:", msg.contents, msg)
              ELSE Line("[INFO]", msg.contents, msg)
         ELSE IF ~args.accessible_mode
              THEN Line("[INFO]", msg.contents, msg)
              ELSE NoLine
    ELSE IF args.accessible_mode
         THEN Line("Warning:", 0, msg)
         ELSE Line("[WARNING]", 0, msg)

RECURSIVE join(_)
join(lines) ==
    IF Len(lines) = 0 THEN <<>>
    ELSE IF Len(lines) = 1 THEN <<lines[1]>>
    ELSE <<lines[1], NL>> \o join(Tail(lines))

println(text) == out \o text \o <<NL>>

push_front(buf, line) == <<line>> \o buf

push(buf, line) == Append(buf, line)

Send(from, lvl, acc) ==
    /\ chan' = Append(chan, [id |-> nsent + 1, from |-> from, level |-> lvl,
                             accessible |-> acc, contents |-> nsent + 1])
    /\ nsent' = nsent + 1

MaySend(from) ==
    \/ UNCHANGED chanVars
    \/ /\ nsent < MaxMsgs
       /\ Send(from, "Info", TRUE)

warn_user_about_loading_zip_in_memory(from) == Send(from, "Warning", TRUE)

\* ------------------------------------------------------------------ senders

MainHoldsSender == mainPc \notin {"lock", "wait", "waiting", "woken", "returned"}

Running == {i \in DOMAIN item : item[i].st = "run"}

Senders == (IF MainHoldsSender THEN 1 ELSE 0) + Cardinality(Running)

FreeThreads ==
    args.poolSize - (IF consPc \in {"queued", "done"} THEN 0 ELSE 1)
                  - Cardinality(Running)

\* --------------------------------------------------------------------- Init
File(n, c) == [name |-> n, formats |-> c]

Lists(min, max, files) == UNION {[1..n -> files] : n \in min..max}

\* Option<i16>
None == <<"None", 0>>
Some(n) == <<"Some", n>>

ArgsOf(cmd, files, format, output, mode, threads) ==
    [cmd |-> cmd, files |-> files, format |-> format,
     output |-> File(OutputPath, output),
     fast |-> FALSE, slow |-> FALSE, level |-> None,
     accessible_mode |-> mode, poolSize |-> threads]

\* The file system run starts with: OutputPath may hold an older file.
InitialFs(existing) ==
    [n \in Names |-> IF n = OutputPath /\ existing THEN Old ELSE Absent]

\* Compress and List use the pool for the consumer alone; with --format the
\* chains of the paths are never read. Compress may be left with no file
\* (files.is_empty()); decompress and list name at least one. Compress sends
\* every kind of message, so it is run in both rendering modes.
CompressArgs ==
    {ArgsOf("Compress", f, "None", o, m, MaxThreads) :
        f \in Lists(0, MaxCompressFiles, {File("b", <<>>)}), o \in OutputChains,
        m \in BOOLEAN}
    \cup
    {ArgsOf("Compress", f, fl, <<>>, m, MaxThreads) :
        f \in Lists(0, MaxFiles, {File("b", <<>>)}), fl \in FormatFlags,
        m \in BOOLEAN}

\* Inputs of a decompress run: a file without known extension, whose format
\* comes from the format flag or from the detection, and a file with one.
\* Two of the same kind share their output path.
DecompressFiles == {File("a", <<>>), File("b", <<"Gzip">>)}

\* Threads of the rayon pool: one (the consumer has it), two (one thread
\* left for the items), or enough for the items to run together.
PoolSizes == {1, 2, MaxThreads}

DecompressArgs ==
    {ArgsOf("Decompress", f, "None", <<>>, FALSE, t) :
        f \in Lists(1, MaxFiles, DecompressFiles), t \in PoolSizes}
    \cup
    {ArgsOf("Decompress", f, fl, <<>>, FALSE, t) :
        f \in Lists(1, MaxFiles, {File("a", <<>>)}),
        fl \in DecompressFormatFlags, t \in PoolSizes}

ListArgs ==
    {ArgsOf("List", f, "None", <<>>, FALSE, MaxThreads) :
        f \in Lists(1, MaxFiles, {File("a", c) : c \in FileChains})}
    \cup
    {ArgsOf("List", f, fl, <<>>, FALSE, MaxThreads) :
        f \in Lists(1, MaxFiles, {File("a", <<>>)}), fl \in FormatFlags}

ArgsSet == CompressArgs \cup DecompressArgs \cup ListArgs

Init ==
    /\ args \in ArgsSet
    /\ mainPc = "start"
    /\ result = [kind |-> "none", why |-> "none", who |-> 0]
    /\ idx = 1
    /\ formats = <<>>
    /\ output_paths = <<>>
    /\ dirCreated = FALSE
    /\ item = [i \in 1..Len(args.files) |-> [st |-> "idle", k |-> 0]]
    /\ full = FALSE
    /\ fs0 \in (IF args.cmd = "List" THEN {FALSE} ELSE BOOLEAN)
    /\ fs = InitialFs(fs0)
    /\ level = None
    /\ compress_result = "none"
    /\ cleanup = "none"
    /\ fatal = FALSE
    /\ chan = <<>>
    /\ nsent = 0
    /\ buffer = <<>>
    /\ out = <<>>
    /\ consPc = "queued"
    /\ flushed = FALSE
    /\ mutex = "free"

\* ----------------------------------------------------------------- consumer
ConsumerStart ==
    /\ consPc = "queued"
    /\ FreeThreads > 0
    /\ consPc' = "recv"
    /\ UNCHANGED <<args, fs0, level, mainPc, result, loopVars, dirCreated, poolVars, fs,
                   compVars, chanVars, buffer, out, syncVars>>

ConsumerRecvKeepsBuffer ==
    /\ consPc = "recv"
    /\ chan # <<>>
    /\ LET line == map_message(Head(chan)) IN
        IF Len(buffer) = BUFFER_SIZE
        THEN /\ out' = println(join(buffer) \o (IF line # NoLine THEN <<line>> ELSE <<>>))
             /\ buffer' = buffer
        ELSE /\ buffer' = IF line # NoLine THEN push(buffer, line) ELSE buffer
             /\ out' = out
    /\ chan' = Tail(chan)
    /\ UNCHANGED <<args, fs0, level, mainPc, result, loopVars, dirCreated, poolVars, fs,
                   compVars, nsent, consPc, syncVars>>

ConsumerRecv ==
    /\ consPc = "recv"
    /\ chan # <<>>
    /\ LET line == map_message(Head(chan)) IN
        IF Len(buffer) = BUFFER_SIZE
        THEN /\ out' = println(join(buffer) \o (IF line # NoLine THEN <<line>> ELSE <<>>))
             /\ buffer' = <<>>
        ELSE /\ buffer' = IF line # NoLine THEN push(buffer, line) ELSE buffer
             /\ out' = out
    /\ chan' = Tail(chan)
    /\ UNCHANGED <<args, fs0, level, mainPc, result, loopVars, dirCreated, poolVars, fs,
                   compVars, nsent, consPc, syncVars>>

ConsumerDisconnectedNoFlush ==
    /\ consPc = "recv"
    /\ chan = <<>>
    /\ Senders = 0
    /\ consPc' = "lock"
    /\ UNCHANGED <<args, fs0, level, mainPc, result, loopVars, dirCreated, poolVars, fs,
                   compVars, chanVars, buffer, out, syncVars>>

ConsumerDisconnected ==
    /\ consPc = "recv"
    /\ chan = <<>>
    /\ Senders = 0
    /\ out' = println(join(buffer))
    /\ consPc' = "lock"
    /\ UNCHANGED <<args, fs0, level, mainPc, result, loopVars, dirCreated, poolVars, fs,
                   compVars, chanVars, buffer, syncVars>>

ConsumerLock ==
    /\ consPc = "lock"
    /\ mutex = "free"
    /\ mutex' = "cons"
    /\ consPc' = "set"
    /\ UNCHANGED <<args, fs0, level, mainPc, result, loopVars, dirCreated, poolVars, fs,
                   compVars, chanVars, buffer, out, flushed>>

ConsumerSet ==
    /\ consPc = "set"
    /\ flushed' = TRUE
    /\ consPc' = "notify"
    /\ UNCHANGED <<args, fs0, level, mainPc, result, loopVars, dirCreated, poolVars, fs,
                   compVars, chanVars, buffer, out, mutex>>

ConsumerNotify ==
    /\ consPc = "notify"
    /\ mainPc' = IF mainPc = "waiting" THEN "woken" ELSE mainPc
    /\ consPc' = "exit"
    /\ UNCHANGED <<args, fs0, level, result, loopVars, dirCreated, poolVars, fs,
                   compVars, chanVars, buffer, out, syncVars>>

ConsumerExit ==
    /\ consPc = "exit"
    /\ mutex' = "free"
    /\ consPc' = "done"
    /\ UNCHANGED <<args, fs0, level, mainPc, result, loopVars, dirCreated, poolVars, fs,
                   compVars, chanVars, buffer, out, flushed>>

\* -------------------------------------------------------------- main thread
NotYet == [kind |-> "none", why |-> "none", who |-> 0]
Ok(why, who) == [kind |-> "Ok", why |-> why, who |-> who]
Err(why, who) == [kind |-> "Err", why |-> why, who |-> who]

Return(r) ==
    /\ mainPc' = "returned"
    /\ result' = r

\* Every prompt may be answered either way: QuestionPolicy::Ask leaves the
\* answer to the user, AlwaysYes and AlwaysNo are the runs where all answers
\* agree.
\* Outcomes of utils::ask_to_create_file on path p.
CreateOutcomes(p) ==
    {"Err", "Some"} \cup (IF fs[p] # Absent THEN {"None"} ELSE {})

\* Outcomes of check::check_mime_type on a file whose name gave the chain
\* fmts: go on with fmts, an I/O error, the user declines to continue, or
\* (no known extension) the sniffed format is accepted and pushed to fmts.
DetectedFormats == <<"Gzip">>

MimeOutcomes(fmts) ==
    {"Continue", "Err", "Break"} \cup (IF fmts = <<>> THEN {"Detected"} ELSE {})

OnMimeBreakAsError(i) == Err("MimeDeclined", i)

\* `if let ControlFlow::Break(_) = check_mime_type(..)? { return Ok(()); }`
OnMimeBreak(i) == Ok("MimeDeclined", i)

\* ---- Subcommand::Compress
CompressErrorWithoutPosition(fmts) ==
    IF ~check_invalid_compression_with_non_archive_format(fmts, args.files)
    THEN "NonArchiveFormat"
    ELSE "none"

\* The two checks made on the resolved chain before the output is opened.
CompressError(fmts) ==
    IF ~check_invalid_compression_with_non_archive_format(fmts, args.files)
    THEN "NonArchiveFormat"
    ELSE IF ~check_archive_formats_position(fmts)
    THEN "ArchivePosition"
    ELSE "none"

NeedsCleanupOnErrOnly(r) == r = "Err"

\* `if let Ok(true) = compress_result { .. } else { .. }`
NeedsCleanup(r) == r # "OkTrue"

CompressChecks ==
    /\ mainPc = "start"
    /\ args.cmd = "Compress"
    /\ IF args.files = <<>>
       THEN Return(Err("NoFilesToCompress", 0)) /\ UNCHANGED <<formats, chanVars>>
       ELSE IF args.format # "None" /\ parse_format(args.format) = Failed
       THEN Return(Err("ParseFormat", 0)) /\ UNCHANGED <<formats, chanVars>>
       ELSE LET fmts == IF args.format # "None"
                        THEN parse_format(args.format)
                        ELSE extensions_from_path(args.output)
            IN /\ IF args.format = "None"
                  THEN MaySend(MainThread)
                  ELSE UNCHANGED chanVars
               /\ formats' = <<fmts>>
               /\ IF CompressError(fmts) # "none"
                  THEN Return(Err(CompressError(fmts), 0))
                  ELSE mainPc' = "create" /\ result' = result
    /\ UNCHANGED <<args, fs0, level, idx, output_paths, dirCreated, poolVars, fs, compVars,
                   consVars, syncVars>>

CompressAskToCreate ==
    /\ mainPc = "create"
    /\ \E o \in CreateOutcomes(args.output.name) :
        \/ /\ o = "Some"
           /\ fs' = [fs EXCEPT ![args.output.name] = Blank]
           /\ mainPc' = "level"
           /\ result' = result
        \/ /\ o = "None"
           /\ Return(Ok("CreateDeclined", 0))
           /\ fs' = fs
        \/ /\ o = "Err"
           /\ Return(Err("CreateFile", 0))
           /\ fs' = fs
    /\ UNCHANGED <<args, fs0, level, loopVars, dirCreated, poolVars, compVars, chanVars,
                   consVars, syncVars>>

select_level_slow_first(fast, slow, lv) ==
    IF slow THEN Some(I16_MAX)
    ELSE IF fast THEN Some(FAST_LEVEL)
    ELSE lv

\* `let level = if fast { Some(1) } else if slow { Some(i16::MAX) } else { level }`
select_level(fast, slow, lv) ==
    IF fast THEN Some(FAST_LEVEL)
    ELSE IF slow THEN Some(I16_MAX)
    ELSE lv

CompressLevel ==
    /\ mainPc = "level"
    /\ level' = select_level(args.fast, args.slow, args.level)
    /\ mainPc' = "compress_begin"
    /\ UNCHANGED <<args, fs0, result, loopVars, dirCreated, poolVars, fs, compVars,
                   chanVars, consVars, syncVars>>

CompressFilesBegin ==
    /\ mainPc = "compress_begin"
    /\ IF formats[1][1] = "Zip" /\ Len(formats[1]) > 1
       THEN warn_user_about_loading_zip_in_memory(MainThread)
       ELSE UNCHANGED chanVars
    /\ mainPc' = "compress_files"
    /\ UNCHANGED <<args, fs0, level, result, loopVars, dirCreated, poolVars, fs, compVars,
                   consVars, syncVars>>

CompressFilesSend ==
    /\ mainPc = "compress_files"
    /\ idx <= Len(args.files)
    /\ Send(MainThread, "Info", FALSE)
    /\ idx' = idx + 1
    /\ UNCHANGED <<args, fs0, level, mainPc, result, formats, output_paths, dirCreated,
                   poolVars, fs, compVars, consVars, syncVars>>

CompressFilesReturn ==
    /\ mainPc = "compress_files"
    /\ \E r \in {"OkTrue", "OkFalse", "Err"} :
        /\ compress_result' = r
        /\ fs' = [fs EXCEPT ![args.output.name] =
                      IF r = "OkTrue" THEN Whole(1) ELSE Blank]
    /\ mainPc' = "compress_done"
    /\ UNCHANGED <<args, fs0, level, result, loopVars, dirCreated, poolVars, cleanup, fatal,
                   chanVars, consVars, syncVars>>

CompressResultAlwaysReports ==
    /\ mainPc = "compress_done"
    /\ Send(MainThread, "Info", TRUE)
    /\ IF ~NeedsCleanup(compress_result)
       THEN UNCHANGED <<fs, cleanup, fatal>>
       ELSE \E removed \in BOOLEAN :
                IF removed
                THEN /\ fs' = [fs EXCEPT ![args.output.name] = Absent]
                     /\ cleanup' = "removed"
                     /\ fatal' = fatal
                ELSE /\ fs' = fs
                     /\ cleanup' = "failed"
                     /\ fatal' = TRUE
    /\ mainPc' = "propagate"
    /\ UNCHANGED <<args, fs0, level, result, loopVars, dirCreated, poolVars, compress_result,
                   consVars, syncVars>>

CompressResult ==
    /\ mainPc = "compress_done"
    /\ IF ~NeedsCleanup(compress_result)
       THEN /\ Send(MainThread, "Info", TRUE)
            /\ UNCHANGED <<fs, cleanup, fatal>>
       ELSE /\ \E removed \in BOOLEAN :
                IF removed
                THEN /\ fs' = [fs EXCEPT ![args.output.name] = Absent]
                     /\ cleanup' = "removed"
                     /\ fatal' = fatal
                ELSE /\ fs' = fs
                     /\ cleanup' = "failed"
                     /\ fatal' = TRUE
            /\ UNCHANGED chanVars
    /\ mainPc' = "propagate"
    /\ UNCHANGED <<args, fs0, level, result, loopVars, dirCreated, poolVars, compress_result,
                   consVars, syncVars>>

CompressPropagateSwallows ==
    /\ mainPc = "propagate"
    /\ mainPc' = "drop"
    /\ UNCHANGED <<args, fs0, level, result, loopVars, dirCreated, poolVars, fs,
                   compVars, chanVars, consVars, syncVars>>

CompressPropagate ==
    /\ mainPc = "propagate"
    /\ IF compress_result = "Err"
       THEN Return(Err("CompressFiles", 0))
       ELSE mainPc' = "drop" /\ result' = result
    /\ UNCHANGED <<args, fs0, level, loopVars, dirCreated, poolVars, fs, compVars, chanVars,
                   consVars, syncVars>>

Compress ==
    \/ CompressChecks \/ CompressAskToCreate \/ CompressLevel \/ CompressFilesBegin
    \/ CompressFilesSend \/ CompressFilesReturn \/ CompressResult
    \/ CompressPropagate

\* ---- Subcommand::Decompress
DecompressFormatFlag ==
    /\ mainPc = "start"
    /\ args.cmd = "Decompress"
    /\ args.format # "None"
    /\ IF parse_format(args.format) = Failed
       THEN Return(Err("ParseFormat", 0)) /\ UNCHANGED <<formats, output_paths>>
       ELSE /\ output_paths' = [i \in 1..Len(args.files) |-> file_name(args.files[i])]
            /\ formats' = [i \in 1..Len(args.files) |-> parse_format(args.format)]
            /\ mainPc' = "check"
            /\ result' = result
    /\ UNCHANGED <<args, fs0, level, idx, dirCreated, poolVars, fs, compVars, chanVars,
                   consVars, syncVars>>

DecompressResolve ==
    /\ mainPc = "start"
    /\ args.cmd = "Decompress"
    /\ args.format = "None"
    /\ IF idx > Len(args.files)
       THEN /\ mainPc' = "check"
            /\ UNCHANGED <<result, loopVars, chanVars>>
       ELSE LET split == separate_known_extensions_from_name(args.files[idx]) IN
            /\ MaySend(MainThread)
            /\ \E o \in MimeOutcomes(split[2]) :
                \/ /\ o = "Err"
                   /\ Return(Err("CheckMimeType", idx))
                   /\ UNCHANGED loopVars
                \/ /\ o = "Break"
                   /\ Return(OnMimeBreak(idx))
                   /\ UNCHANGED loopVars
                \/ /\ o \in {"Continue", "Detected"}
                   /\ output_paths' = Append(output_paths, split[1])
                   /\ formats' = Append(formats, IF o = "Detected"
                                                 THEN DetectedFormats
                                                 ELSE split[2])
                   /\ idx' = idx + 1
                   /\ UNCHANGED <<mainPc, result>>
    /\ UNCHANGED <<args, fs0, level, dirCreated, poolVars, fs, compVars, consVars, syncVars>>

DecompressCheck ==
    /\ mainPc = "check"
    /\ args.cmd = "Decompress"
    /\ IF check_missing_formats_when_decompressing(formats)
       THEN mainPc' = "create_dir" /\ result' = result
       ELSE Return(Err("MissingFormats", 0))
    /\ UNCHANGED <<args, fs0, level, loopVars, dirCreated, poolVars, fs, compVars, chanVars,
                   consVars, syncVars>>

\* --dir absent or already there ("Keep"), created, or creation fails.
DecompressCreateDir ==
    /\ mainPc = "create_dir"
    /\ \E o \in {"Keep", "Created", "Err"} :
        \/ /\ o = "Keep"
           /\ mainPc' = "dispatch"
           /\ UNCHANGED <<result, dirCreated, chanVars>>
        \/ /\ o = "Created"
           /\ dirCreated' = TRUE
           /\ MaySend(MainThread)
           /\ mainPc' = "dispatch"
           /\ result' = result
        \/ /\ o = "Err"
           /\ Return(Err("CreateDir", 0))
           /\ UNCHANGED <<dirCreated, chanVars>>
    /\ UNCHANGED <<args, fs0, level, loopVars, poolVars, fs, compVars, consVars, syncVars>>

ItemStartIgnoresFailure(i) ==
    /\ i \in DOMAIN item
    /\ mainPc = "dispatch"
    /\ item[i].st = "idle"
    /\ consPc # "queued"
    /\ FreeThreads > 0
    /\ Running # {} \/ \A j \in 1..(i - 1) : item[j].st # "idle"
    /\ item' = [item EXCEPT ![i] = [st |-> "run", k |-> 0]]
    /\ UNCHANGED <<args, fs0, level, mainPc, result, loopVars, dirCreated, full, fs,
                   compVars, chanVars, consVars, syncVars>>

\* One item of par_iter().try_for_each: a pool thread takes it unless a
\* failure has been recorded. Jobs leave the pool's queue in order, so the
\* consumer has its thread first; a thread working alone takes the items in
\* list order, a thread that steals takes any.
ItemStart(i) ==
    /\ i \in DOMAIN item
    /\ mainPc = "dispatch"
    /\ item[i].st = "idle"
    /\ ~full
    /\ consPc # "queued"
    /\ FreeThreads > 0
    /\ Running # {} \/ \A j \in 1..(i - 1) : item[j].st # "idle"
    /\ item' = [item EXCEPT ![i] = [st |-> "run", k |-> 0]]
    /\ UNCHANGED <<args, fs0, level, mainPc, result, loopVars, dirCreated, full, fs,
                   compVars, chanVars, consVars, syncVars>>

\* decompress_file: ask_to_create_file on output_dir.join(file_name).
ItemOpen(i) ==
    /\ i \in DOMAIN item
    /\ item[i] = [st |-> "run", k |-> 0]
    /\ \E o \in CreateOutcomes(output_paths[i]) :
        \/ /\ o = "Some"
           /\ fs' = [fs EXCEPT ![output_paths[i]] = Blank]
           /\ item' = [item EXCEPT ![i].k = 1]
           /\ full' = full
        \/ /\ o = "None"
           /\ item' = [item EXCEPT ![i].st = "declined"]
           /\ UNCHANGED <<fs, full>>
        \/ /\ o = "Err"
           /\ item' = [item EXCEPT ![i].st = "err"]
           /\ full' = TRUE
           /\ fs' = fs
    /\ UNCHANGED <<args, fs0, level, mainPc, result, loopVars, dirCreated, compVars,
                   chanVars, consVars, syncVars>>

\* decompress_file: a read, decode or write error.
ItemFail(i) ==
    /\ i \in DOMAIN item
    /\ item[i] = [st |-> "run", k |-> 1]
    /\ item' = [item EXCEPT ![i].st = "err"]
    /\ full' = TRUE
    /\ UNCHANGED <<args, fs0, level, mainPc, result, loopVars, dirCreated, fs, compVars,
                   chanVars, consVars, syncVars>>

\* decompress_file: the decoded stream is written to the output path, the
\* output is reported and Ok returned.
ItemFinish(i) ==
    /\ i \in DOMAIN item
    /\ item[i] = [st |-> "run", k |-> 1]
    /\ fs' = [fs EXCEPT ![output_paths[i]] = Whole(i)]
    /\ MaySend(Worker(i))
    /\ item' = [item EXCEPT ![i].st = "ok"]
    /\ UNCHANGED <<args, fs0, level, mainPc, result, loopVars, dirCreated, full,
                   compVars, consVars, syncVars>>

\* try_for_each returns once no item is running and none will be started.
DispatchJoin ==
    /\ mainPc = "dispatch"
    /\ Running = {}
    /\ full \/ \A i \in DOMAIN item : item[i].st # "idle"
    /\ IF \E i \in DOMAIN item : item[i].st = "err"
       THEN \E i \in DOMAIN item :
                item[i].st = "err" /\ Return(Err("DecompressFile", i))
       ELSE mainPc' = "drop" /\ result' = result
    /\ UNCHANGED <<args, fs0, level, loopVars, dirCreated, poolVars, fs, compVars, chanVars,
                   consVars, syncVars>>

Decompress ==
    \/ DecompressFormatFlag \/ DecompressResolve \/ DecompressCheck
    \/ DecompressCreateDir \/ DispatchJoin
    \/ \E i \in 1..MaxFiles : ItemStart(i)
    \/ \E i \in 1..MaxFiles : ItemOpen(i)
    \/ \E i \in 1..MaxFiles : ItemFail(i)
    \/ \E i \in 1..MaxFiles : ItemFinish(i)

\* ---- Subcommand::List
ListFormatFlag ==
    /\ mainPc = "start"
    /\ args.cmd = "List"
    /\ args.format # "None"
    /\ IF parse_format(args.format) = Failed
       THEN Return(Err("ParseFormat", 0)) /\ UNCHANGED formats
       ELSE /\ formats' = [i \in 1..Len(args.files) |-> parse_format(args.format)]
            /\ mainPc' = "check"
            /\ result' = result
    /\ UNCHANGED <<args, fs0, level, idx, output_paths, dirCreated, poolVars, fs, compVars,
                   chanVars, consVars, syncVars>>

ListResolve ==
    /\ mainPc = "start"
    /\ args.cmd = "List"
    /\ args.format = "None"
    /\ IF idx > Len(args.files)
       THEN /\ mainPc' = "check"
            /\ UNCHANGED <<result, loopVars, chanVars>>
       ELSE LET file_formats == extensions_from_path(args.files[idx]) IN
            /\ MaySend(MainThread)
            /\ \E o \in MimeOutcomes(file_formats) :
                \/ /\ o = "Err"
                   /\ Return(Err("CheckMimeType", idx))
                   /\ UNCHANGED loopVars
                \/ /\ o = "Break"
                   /\ Return(OnMimeBreak(idx))
                   /\ UNCHANGED loopVars
                \/ /\ o \in {"Continue", "Detected"}
                   /\ formats' = Append(formats, IF o = "Detected"
                                                 THEN DetectedFormats
                                                 ELSE file_formats)
                   /\ idx' = idx + 1
                   /\ UNCHANGED <<mainPc, result, output_paths>>
    /\ UNCHANGED <<args, fs0, level, dirCreated, poolVars, fs, compVars, consVars, syncVars>>

ListCheck ==
    /\ mainPc = "check"
    /\ args.cmd = "List"
    /\ IF check_for_non_archive_formats(formats)
       THEN mainPc' = "list" /\ result' = result /\ idx' = 1
       ELSE Return(Err("NonArchiveListing", 0)) /\ idx' = idx
    /\ UNCHANGED <<args, fs0, level, formats, output_paths, dirCreated, poolVars, fs,
                   compVars, chanVars, consVars, syncVars>>

\* One turn of the sequential loop: println!() between archives, then
\* list_archive_contents, whose error leaves run at once.
ListItem ==
    /\ mainPc = "list"
    /\ IF idx > Len(args.files)
       THEN /\ mainPc' = "drop"
            /\ UNCHANGED <<result, idx, item, chanVars, out>>
       ELSE /\ out' = IF idx > 1 THEN println(<<>>) ELSE out
            /\ MaySend(MainThread)
            /\ \E o \in {"ok", "err"} :
                /\ item' = [item EXCEPT ![idx].st = o]
                /\ IF o = "err"
                   THEN Return(Err("ListArchiveContents", idx)) /\ idx' = idx
                   ELSE idx' = idx + 1 /\ UNCHANGED <<mainPc, result>>
    /\ UNCHANGED <<args, fs0, level, formats, output_paths, dirCreated, full, fs, compVars,
                   buffer, consPc, syncVars>>

List == ListFormatFlag \/ ListResolve \/ ListCheck \/ ListItem

\* ---------------------------------------------------------- shutdown barrier
MainDrop ==
    /\ mainPc = "drop"
    /\ mainPc' = "lock"
    /\ UNCHANGED <<args, fs0, level, result, loopVars, dirCreated, poolVars, fs, compVars,
                   chanVars, consVars, syncVars>>

MainLock ==
    /\ mainPc = "lock"
    /\ mutex = "free"
    /\ mutex' = "main"
    /\ mainPc' = "wait"
    /\ UNCHANGED <<args, fs0, level, result, loopVars, dirCreated, poolVars, fs, compVars,
                   chanVars, consVars, flushed>>

MainWait ==
    /\ mainPc = "wait"
    /\ mutex' = "free"
    /\ mainPc' = "waiting"
    /\ UNCHANGED <<args, fs0, level, result, loopVars, dirCreated, poolVars, fs, compVars,
                   chanVars, consVars, flushed>>

SpuriousWakeup ==
    /\ mainPc = "waiting"
    /\ mainPc' = "woken"
    /\ UNCHANGED <<args, fs0, level, result, loopVars, dirCreated, poolVars, fs, compVars,
                   chanVars, consVars, syncVars>>

MainWake ==
    /\ mainPc = "woken"
    /\ mutex = "free"
    /\ Return(Ok("Done", 0))
    /\ UNCHANGED <<args, fs0, level, loopVars, dirCreated, poolVars, fs, compVars,
                   chanVars, consVars, syncVars>>

Barrier == MainDrop \/ MainLock \/ MainWait \/ MainWake

Consumer ==
    \/ ConsumerStart \/ ConsumerRecv \/ ConsumerDisconnected
    \/ ConsumerLock \/ ConsumerSet \/ ConsumerNotify \/ ConsumerExit

Next == Compress \/ Decompress \/ List \/ Consumer \/ Barrier \/ SpuriousWakeup

Spec == Init /\ [][Next]_vars
\* ---- the level selection of Subcommand::Compress on its own: run has
\* resolved the formats of one file and created the output, and selects the
\* level from any values of the three options.
Levels == {None} \cup {Some(n) : n \in (-MaxLevel..MaxLevel) \cup {I16_MIN, I16_MAX}}

LevelArgs ==
    {[ArgsOf("Compress", <<File("b", <<>>)>>, "tar", <<>>, FALSE, MaxThreads)
        EXCEPT !.fast = f, !.slow = sl, !.level = lv] :
        f \in BOOLEAN, sl \in BOOLEAN, lv \in Levels}

LevelInit ==
    /\ args \in LevelArgs
    /\ mainPc = "level"
    /\ result = [kind |-> "none", why |-> "none", who |-> 0]
    /\ idx = 1
    /\ formats = <<parse_format(args.format)>>
    /\ output_paths = <<>>
    /\ dirCreated = FALSE
    /\ item = [i \in 1..Len(args.files) |-> [st |-> "idle", k |-> 0]]
    /\ full = FALSE
    /\ fs0 = FALSE
    /\ fs = [InitialFs(fs0) EXCEPT ![args.output.name] = Blank]
    /\ level = None
    /\ compress_result = "none"
    /\ cleanup = "none"
    /\ fatal = FALSE
    /\ chan = <<>>
    /\ nsent = 0
    /\ buffer = <<>>
    /\ out = <<>>
    /\ consPc = "queued"
    /\ flushed = FALSE
    /\ mutex = "free"

LevelNext == CompressLevel

LevelSpec == LevelInit /\ [][LevelNext]_vars

\* ---- Evaluator::evaluate (evaluator.rs): the sequential dispatcher over the
\* files of a Command.  A file carries `extension`: "None" for no known
\* extension, else the second_ext of the extension.  item[i] records what
\* happened to file i: the decompressor it was given (`by`) and the error
\* it failed with (`err`).
MaxEvalFiles == 3

Extensions == {"None", "Tar", "Zip", "Gzip"}

EvalFile(n, ext) == [name |-> n, extension |-> ext]

EvalFiles == {EvalFile("a", ext) : ext \in Extensions}

CommandKinds == {"Compression", "Decompression"}

\* The errors a decompressor may return.
DecompressErrors == {"IoError", "FileNotFound"}

EvalArgs ==
    {ArgsOf(kind, files, "", <<>>, FALSE, 1) :
        kind \in CommandKinds, files \in Lists(0, MaxEvalFiles, EvalFiles)}

EvalInit ==
    /\ args \in EvalArgs
    /\ mainPc = "evaluate"
    /\ result = [kind |-> "none", why |-> "none", who |-> 0]
    /\ idx = 1
    /\ formats = <<>>
    /\ output_paths = <<>>
    /\ dirCreated = FALSE
    /\ item = [i \in 1..Len(args.files) |-> [st |-> "idle", by |-> "none", err |-> "none"]]
    /\ full = FALSE
    /\ fs0 = FALSE
    /\ fs = InitialFs(fs0)
    /\ level = None
    /\ compress_result = "none"
    /\ cleanup = "none"
    /\ fatal = FALSE
    /\ chan = <<>>
    /\ nsent = 0
    /\ buffer = <<>>
    /\ out = <<>>
    /\ consPc = "queued"
    /\ flushed = FALSE
    /\ mutex = "free"

evalFixed == <<args, fs0, level, formats, output_paths, dirCreated, full, fs, compVars,
               chanVars, consVars, syncVars>>

\* get_decompressor: InvalidInput for a file without extension, a
\* decompressor for tar and zip, todo!() for every other format.
get_decompressor(file) ==
    IF file.extension = "None" THEN <<"Err", "InvalidInput">>
    ELSE IF file.extension = "Tar" THEN <<"Ok", "TarDecompressor">>
    ELSE IF file.extension = "Zip" THEN <<"Ok", "ZipDecompressor">>
    ELSE <<"Panic", "todo">>

\* CommandKind::Compression: todo!() on the first file, Ok(()) for none.
EvaluateCompression ==
    /\ mainPc = "evaluate"
    /\ args.cmd = "Compression"
    /\ IF args.files = <<>>
       THEN Return(Ok("Done", 0))
       ELSE mainPc' = "panicked" /\ result' = result
    /\ UNCHANGED <<idx, item, evalFixed>>

\* CommandKind::Decompression: the head of `for file in files_to_decompress`.
EvaluateDecompression ==
    /\ mainPc = "evaluate"
    /\ args.cmd = "Decompression"
    /\ IF idx > Len(args.files)
       THEN Return(Ok("Done", 0))
       ELSE mainPc' = "get_decompressor" /\ result' = result
    /\ UNCHANGED <<idx, item, evalFixed>>

\* decompress_file, `self.get_decompressor(file)?`: the error leaves
\* decompress_file and evaluate through the two `?`.
DecompressFileGet ==
    /\ mainPc = "get_decompressor"
    /\ LET got == get_decompressor(args.files[idx]) IN
        CASE got[1] = "Err" ->
               /\ item' = [item EXCEPT ![idx] = [st |-> "failed", by |-> "none", err |-> got[2]]]
               /\ Return(Err(got[2], idx))
          [] got[1] = "Panic" ->
               /\ mainPc' = "panicked"
               /\ UNCHANGED <<item, result>>
          [] got[1] = "Ok" ->
               /\ item' = [item EXCEPT ![idx] = [st |-> "decompressing", by |-> got[2], err |-> "none"]]
               /\ mainPc' = "decompress"
               /\ result' = result
    /\ UNCHANGED <<idx, evalFixed>>

DecompressFileRunKeepsGoing ==
    /\ mainPc = "decompress"
    /\ \/ /\ item' = [item EXCEPT ![idx].st = "done"]
          /\ idx' = idx + 1
          /\ mainPc' = "evaluate"
          /\ result' = result
       \/ \E e \in DecompressErrors :
            /\ item' = [item EXCEPT ![idx].st = "failed", ![idx].err = e]
            /\ idx' = idx + 1
            /\ mainPc' = "evaluate"
            /\ result' = result
    /\ UNCHANGED evalFixed

\* decompress_file, `decompressor.decompress(file, output_file)?`: Ok goes on
\* to the next file, an error leaves evaluate.
DecompressFileRun ==
    /\ mainPc = "decompress"
    /\ \/ /\ item' = [item EXCEPT ![idx].st = "done"]
          /\ idx' = idx + 1
          /\ mainPc' = "evaluate"
          /\ result' = result
       \/ \E e \in DecompressErrors :
            /\ item' = [item EXCEPT ![idx].st = "failed", ![idx].err = e]
            /\ idx' = idx
            /\ Return(Err(e, idx))
    /\ UNCHANGED evalFixed

EvalNext ==
    \/ EvaluateCompression
    \/ EvaluateDecompression
    \/ DecompressFileGet
    \/ DecompressFileRun

EvalSpec == EvalInit /\ [][EvalNext]_vars

\* Each thread takes its next step when it can; a spurious wakeup is allowed
\* to the condition variable but never promised.
MainStep == Compress \/ DecompressFormatFlag \/ DecompressResolve
            \/ DecompressCheck \/ DecompressCreateDir \/ DispatchJoin
            \/ List \/ Barrier

ItemStep(i) == ItemStart(i) \/ ItemOpen(i) \/ ItemFail(i) \/ ItemFinish(i)

FairSpec ==
    /\ Spec
    /\ WF_vars(MainStep)
    /\ WF_vars(Consumer)
    /\ \A i \in 1..MaxFiles : WF_vars(ItemStep(i))

\* ------------------------------------------------------------------ claims
Returned == mainPc = "returned"

LinesOf(text) == {text[j].of : j \in 1..Len(text)} \ {0}

\* Messages sent and not yet printed: in the channel, or rendered into the
\* buffer and not written.
Unprinted ==
    {chan[j].id : j \in 1..Len(chan)} \cup (LinesOf(buffer) \ LinesOf(out))

\* C1: when run returns, on every path, no message sent on the log channel
\* is still unprinted.
C1_AllPrintedAtReturn == Returned => Unprinted = {}

\* C2: once the main thread has dropped its sender, its wait on the shutdown
\* barrier eventually returns, in every interleaving with the consumer.
C2_BarrierWaitReturns == (mainPc = "lock") ~> Returned

\* C3: run never returns while the flushed flag is false.
C3_ReturnedOnlyWhenFlushed == Returned => flushed

\* C4: in a compress run, once compress_files has not returned Ok(true), the
\* removal of the output path has been attempted before run goes on: the
\* path is gone when removal succeeded, the fatal text is reported when it
\* failed, and a compression error is the error run returns.
CleanedUp == compress_result # "none" /\ mainPc # "compress_done"

C4_CleanupOnFailure ==
    (CleanedUp /\ compress_result # "OkTrue") =>
        /\ cleanup # "none"
        /\ cleanup = "removed" => fs[args.output.name] = Absent /\ ~fatal
        /\ cleanup = "failed" => fatal
        /\ (Returned /\ compress_result = "Err") => result = Err("CompressFiles", 0)

C4_Witness ==
    /\ Returned
    /\ compress_result = "Err"
    /\ cleanup = "failed"
    /\ fatal
    /\ result = Err("CompressFiles", 0)

\* Nothing destructive has happened: no path created, written or removed,
\* no directory created, no operation started.
Untouched ==
    /\ fs = InitialFs(fs0)
    /\ ~dirCreated
    /\ cleanup = "none"
    /\ compress_result = "none"
    /\ \A i \in DOMAIN item : item[i].st = "idle"

ResolvedOutputFormats ==
    IF args.format # "None" THEN parse_format(args.format)
    ELSE extensions_from_path(args.output)

IllegalCompress ==
    /\ args.cmd = "Compress"
    /\ \/ args.files = <<>>
       \/ ~check_invalid_compression_with_non_archive_format(ResolvedOutputFormats, args.files)
       \/ ~check_archive_formats_position(ResolvedOutputFormats)

\* The chain resolved for some input of a decompress run is empty.
MissingFormats ==
    /\ args.cmd = "Decompress"
    /\ ~check_missing_formats_when_decompressing(formats)

SomeItemFailed == \E j \in DOMAIN item : item[j].st = "err"

C6_FailureStopsDispatch ==
    /\ [](Returned => Running = {})
    /\ []((Returned /\ SomeItemFailed) =>
            /\ result.kind = "Err"
            /\ result.who \in DOMAIN item
            /\ item[result.who].st = "err")
    /\ [][/\ SomeItemFailed =>
               \A i \in DOMAIN item : item[i].st = "idle" => item'[i].st = "idle"
          /\ (SomeItemFailed' /\ ~SomeItemFailed) => fs' = fs
          /\ (Returned' /\ ~Returned) => fs' = fs
          /\ \A i \in DOMAIN item :
               item[i].st = "run" => item'[i].st \in {"run", "ok", "declined", "err"}]_vars

C6_Witness ==
    /\ Returned
    /\ args.cmd = "Decompress"
    /\ \E i, j \in DOMAIN item :
        /\ item[i].st = "err"
        /\ item[j].st = "idle"
        /\ result = Err("DecompressFile", i)

\* What decompressing the inputs one after another, in list order, can
\* leave: the file system and each input's outcome, for every way the
\* overwrite prompts can be answered, when no operation fails.
RECURSIVE SeqResults(_, _, _)
SeqResults(i, f, sts) ==
    IF i > Len(args.files) THEN {<<f, sts>>}
    ELSE LET p == output_paths[i] IN
         SeqResults(i + 1, [f EXCEPT ![p] = Whole(i)], Append(sts, "ok"))
         \cup (IF f[p] # Absent
               THEN SeqResults(i + 1, f, Append(sts, "declined"))
               ELSE {})

\* C7: when the dispatch of a decompress run ends without a failure, the
\* outputs and outcomes are ones that decompressing the inputs one after
\* another produces.
C7_SameAsSequential ==
    (args.cmd = "Decompress" /\ mainPc = "drop") =>
        <<fs, [i \in DOMAIN item |-> item[i].st]>> \in SeqResults(1, InitialFs(fs0), <<>>)

\* C8 (as claimed): after the user declines the prompt raised for one input,
\* the operations of the other inputs have been carried out when run returns.
C8_OthersCarriedOut ==
    (Returned /\ result.why = "MimeDeclined") =>
        \A j \in DOMAIN item \ {result.who} : item[j].st \in {"ok", "declined"}

\* C8 (amended): a declined check_mime_type prompt makes run return Ok at
\* once, with the operation of no input carried out; a decline inside an
\* operation (the overwrite prompt of decompress_file) ends that operation
\* alone, and the dispatch still carries out every input.
C8_DeclineEndsRun ==
    /\ result.why = "MimeDeclined" =>
          /\ Returned
          /\ result.kind = "Ok"
          /\ Untouched
    /\ (args.cmd = "Decompress" /\ mainPc = "drop") =>
          \A i \in DOMAIN item : item[i].st \in {"ok", "declined"}

C8_Witness ==
    /\ Returned
    /\ Len(args.files) = 2
    /\ result = Ok("MimeDeclined", 2)

\* C9 (as claimed): run returns Ok only if every requested operation
\* succeeded, and returns an error if any operation failed.
C9_OkOnlyIfAllSucceeded ==
    /\ (Returned /\ result.kind = "Ok") =>
          /\ args.cmd \in {"Decompress", "List"} =>
                \A i \in DOMAIN item : item[i].st = "ok"
          /\ args.cmd = "Compress" => compress_result = "OkTrue"
    /\ (Returned /\ (SomeItemFailed \/ compress_result = "Err")) =>
          result.kind = "Err"

\* C9 (amended): run returns Ok only if no check and no operation returned an
\* error: either the user declined a prompt before any operation
\* (check_mime_type, ask_to_create_file), or every operation was carried out
\* and returned Ok, where a declined overwrite in decompress_file and
\* Ok(false) from compress_files count as Ok; if any operation fails run
\* returns an error, and for compress only after the cleanup was attempted.
C9_OkIffNoFailure ==
    /\ (Returned /\ result.kind = "Ok") =>
          /\ ~SomeItemFailed
          /\ compress_result # "Err"
          /\ result.why \in {"Done", "MimeDeclined", "CreateDeclined"}
          /\ result.why = "MimeDeclined" => args.cmd \in {"Decompress", "List"}
          /\ result.why = "CreateDeclined" => args.cmd = "Compress"
          /\ (result.why = "Done" /\ args.cmd = "Decompress") =>
                /\ check_missing_formats_when_decompressing(formats)
                /\ \A i \in DOMAIN item : item[i].st \in {"ok", "declined"}
          /\ (result.why = "Done" /\ args.cmd = "List") =>
                /\ check_for_non_archive_formats(formats)
                /\ \A i \in DOMAIN item : item[i].st = "ok"
          /\ (result.why = "Done" /\ args.cmd = "Compress") =>
                /\ ~IllegalCompress
                /\ compress_result \in {"OkTrue", "OkFalse"}
                /\ compress_result = "OkFalse" => cleanup # "none"
    /\ (Returned /\ (SomeItemFailed \/ compress_result = "Err")) =>
          result.kind = "Err"
    /\ (Returned /\ compress_result = "Err") => cleanup # "none"

C9_Witness ==
    /\ Returned
    /\ args.cmd = "Decompress"
    /\ Len(args.files) = 2
    /\ result = Ok("Done", 0)
    /\ \A i \in DOMAIN item : item[i].st = "ok"

Range(text) == {text[j] : j \in 1..Len(text)}

ContentsOf(line) == line.of

WarningTags == {"Warning:", "[WARNING]"}

\* C11: every line the consumer renders from a Warning message carries the
\* tag of the rendering mode ("Warning:" in accessible mode, "[WARNING]"
\* otherwise) together with the contents of the message.
C11_WarningCarriesContents ==
    \A l \in Range(buffer) \cup Range(out) :
        l.tag \in WarningTags =>
            /\ l.tag = (IF args.accessible_mode THEN "Warning:" ELSE "[WARNING]")
            /\ l.text = ContentsOf(l)

\* C12: when the consumer receives an Info message, a line with its contents
\* is rendered if and only if the message is flagged accessible or the run
\* is not in accessible mode; otherwise no line is produced for it.
C12_InfoShownIffAccessibleOrPlain ==
    [][(chan # <<>> /\ chan' = Tail(chan) /\ Head(chan).level = "Info") =>
          LET msg == Head(chan)
              shown == {l \in Range(buffer') \cup Range(out') : l.of = msg.id}
          IN IF msg.accessible \/ ~args.accessible_mode
             THEN /\ shown # {}
                  /\ \A l \in shown : l.text = msg.contents /\ l.tag \in {"Info:", "[INFO]"}
             ELSE shown = {}]_vars

C12_Witness ==
    /\ args.accessible_mode
    /\ chan = <<>>
    /\ nsent >= 2
    /\ LinesOf(out) # {}
    /\ Cardinality(LinesOf(out) \cup LinesOf(buffer)) < nsent

\* The level handed to compress_files has been selected.
LevelSelected == args.cmd = "Compress" /\ mainPc = "compress_begin"

ConsumerShuttingDown == consPc \in {"lock", "set", "notify", "exit", "done"}

\* C14: the consumer leaves its loop only when every sender is dropped and
\* the channel is empty, and then in order writes the buffered lines, sets
\* the flag, signals the condition variable and terminates; the flag goes
\* from false to true once, by the consumer's own step, and is never true
\* while a received message is unprinted.
C14_ShutdownInOrder ==
    /\ [](ConsumerShuttingDown =>
            /\ Senders = 0
            /\ chan = <<>>
            /\ LinesOf(buffer) \subseteq LinesOf(out))
    /\ [](flushed <=> consPc \in {"notify", "exit", "done"})
    /\ [](flushed => Unprinted = {})
    /\ [][/\ flushed' # flushed =>
               (~flushed /\ flushed' /\ consPc = "set" /\ consPc' = "notify")
          /\ (consPc' # consPc /\ ConsumerShuttingDown) =>
               <<consPc, consPc'>> \in {<<"lock", "set">>, <<"set", "notify">>,
                                       <<"notify", "exit">>, <<"exit", "done">>}
          /\ (consPc = "notify" /\ consPc' = "exit" /\ mainPc = "waiting") =>
               mainPc' = "woken"]_vars

C14_Witness ==
    /\ consPc = "done"
    /\ flushed
    /\ buffer # <<>>
    /\ LinesOf(buffer) \subseteq LinesOf(out)
    /\ mainPc = "returned"
    /\ result = Ok("Done", 0)

\* C15: every received message that formats to a line is written exactly
\* once: its line is kept from receipt on (in the buffer or in the output),
\* is in the output when the consumer has terminated, never appears twice
\* in the output, and a line still waiting in the buffer of the running
\* loop has not been written before; also for the message that arrives
\* while the buffer holds BUFFER_SIZE lines.
C15_WrittenExactlyOnce ==
    /\ [](\A p, q \in 1..Len(out) :
            (p < q /\ out[p].of # 0) => out[p].of # out[q].of)
    /\ [](consPc = "recv" => LinesOf(buffer) \cap LinesOf(out) = {})
    /\ [](consPc = "done" => LinesOf(buffer) \subseteq LinesOf(out))
    /\ [][/\ (chan # <<>> /\ chan' = Tail(chan) /\ map_message(Head(chan)) # NoLine) =>
               Head(chan).id \in LinesOf(buffer') \cup LinesOf(out')
          /\ LinesOf(buffer) \cup LinesOf(out) \subseteq
               LinesOf(buffer') \cup LinesOf(out')]_vars

C15_Witness ==
    /\ consPc = "done"
    /\ nsent > BUFFER_SIZE
    /\ Cardinality(LinesOf(out)) = nsent
    /\ Len(buffer) < BUFFER_SIZE

\* C16: in the written text every formatted message is a line of its own:
\* each is followed by a newline before the next one starts, also in the
\* flush made when a message arrives while the buffer is full.
C16_EachMessageOnItsOwnLine ==
    \A p \in 1..Len(out) : out[p].of # 0 => (p < Len(out) /\ out[p + 1] = NL)

\* C17: whatever the size of the pool, once run dispatches the items of a
\* decompress run every item is eventually started (or the dispatch has
\* stopped on a failure): the consumer, which holds a thread of the same
\* pool while it waits on the channel, never keeps the items from running.
C17_DispatchedItemsStart ==
    (mainPc = "dispatch") ~> (full \/ \A i \in DOMAIN item : item[i].st # "idle")

\* The main thread of a compress run is past the handling of compress_result.
AfterCompressResult ==
    /\ args.cmd = "Compress"
    /\ mainPc \in {"propagate", "drop", "lock", "wait", "waiting", "woken", "returned"}

\* C18: in a compress run compress_files returns once; the step that handles
\* its result sends the final success message (one accessible Info message
\* of the main thread) if and only if the result is Ok(true) and attempts
\* the deletion of the output path if and only if it is not; no message is
\* sent and no deletion attempted after that step, so no run has both.
C18_OneOutcomeOneAction ==
    /\ [](cleanup # "none" => compress_result \in {"OkFalse", "Err"})
    /\ [][/\ compress_result' # compress_result =>
               (compress_result = "none" /\ mainPc = "compress_files")
          /\ cleanup' # cleanup => (cleanup = "none" /\ mainPc = "compress_done")
          /\ (mainPc = "compress_done" /\ mainPc' # mainPc) =>
               /\ nsent' \in {nsent, nsent + 1}
               /\ (compress_result = "OkTrue") <=> (nsent' = nsent + 1)
               /\ (compress_result # "OkTrue") <=> (cleanup' # "none")
               /\ nsent' # nsent =>
                    LET msg == chan'[Len(chan')]
                    IN msg.level = "Info" /\ msg.accessible /\ msg.from = MainThread
          /\ AfterCompressResult => (nsent' = nsent /\ cleanup' = cleanup)]_vars

C18_Witness ==
    /\ Returned
    /\ result = Ok("Done", 0)
    /\ compress_result = "OkTrue"
    /\ cleanup = "none"
    /\ fs[args.output.name] = Whole(1)
    /\ consPc = "done"
    /\ \E p \in 1..Len(out) : out[p].of = nsent

\* C19: for a Decompression command evaluate takes the files in list order:
\* a file is touched only when every file before it is done; a failed file
\* ends evaluate with that file's error and every later file untouched; a
\* file without known extension fails with InvalidInput and was given no
\* decompressor.
C19_StopsAtFirstFailure ==
    args.cmd = "Decompression" =>
        \A i \in DOMAIN item :
            /\ item[i].st # "idle" => \A j \in 1..(i - 1) : item[j].st = "done"
            /\ item[i].st = "failed" =>
                 /\ Returned
                 /\ result = Err(item[i].err, i)
                 /\ \A j \in (i + 1)..Len(args.files) : item[j].st = "idle"
            /\ (item[i].st # "idle" /\ args.files[i].extension = "None") =>
                 item[i] = [st |-> "failed", by |-> "none", err |-> "InvalidInput"]
            /\ (Returned /\ result.kind = "Ok") => item[i].st = "done"

C19_Witness ==
    /\ args.cmd = "Decompression"
    /\ Len(args.files) = 3
    /\ Returned
    /\ item[1].st = "done"
    /\ args.files[2].extension = "None"
    /\ result = Err("InvalidInput", 2)
    /\ item[3].st = "idle"
====
